---- MODULE Spec2Model ----
(***************************************************************************)
(* The anchor_escrow program: a two-party token swap held in escrow.       *)
(*                                                                         *)
(* programs/anchor_escrow/src/lib.rs dispatches the three instructions     *)
(* make, take and refund to instructions::{make,take,refund}::handler.     *)
(* The handlers, the Escrow account (state) and the error enum (errors)    *)
(* are modelled from the written specification; the instruction entry      *)
(* points, the address derivations, the account lists and the ledger set   *)
(* up before the first instruction are modelled from lib.rs and the tests. *)
(*                                                                         *)
(* Token quantities are in base units, as in the tests.  Lamports are      *)
(* counted in tens: the airdrop, the fee of a signature and the            *)
(* rent-exempt minimum of an account are all multiples of ten lamports.    *)
(***************************************************************************)
EXTENDS Integers, Sequences, FiniteSets, TLC

VARIABLES
    escrow,     \* escrow accounts that exist: address -> Escrow record
    tok,        \* token accounts that exist: address -> amount
    sol,        \* lamports of each keypair
    last,       \* the instruction committed last
    terms,      \* history: (maker, seed) of an open trade -> what its make was given
    race,       \* a take and a refund submitted together against one trade
    sent        \* the transactions sent: how many were makes committed or failed, fees paid

vars == <<escrow, tok, sol, last, terms, race, sent>>
ledger == <<escrow, tok, sol>>

----------------------------------------------------------------------------
(* Bounds of the model. *)

MaxAmount == 2      \* make's receive and amount range over 0, Unit, .., MaxAmount * Unit
MaxSent == 2        \* makes committed and transactions failed: followed up to this many

(* Program and test constants. *)

SeedA == 42             \* let seed: u64 = 42
SeedB == 99             \* let seed: u64 = 99
Unit == 500000000       \* receive: 500_000_000, the smallest quantity the tests use
MintedA == 1000000000   \* MintTo(mint_a, maker_ata_a, 1_000_000_000)
MintedB == 500000000    \* MintTo(mint_b, taker_ata_b, 500_000_000)
Airdrop == 1000000000   \* svm.airdrop(.., 10_000_000_000) lamports
Fee == 500              \* send_transaction: 5_000 lamports for each signature
MintLen == 82           \* CreateMint: the size of a mint account
TokenAccountLen == 165  \* CreateAssociatedTokenAccount: the size of a token account
MintSigners == 2        \* CreateMint: signed by the payer and by the new mint
EscrowLen == 121        \* the record: discriminator 8, seed 8, maker 32, mint_a 32,
                        \* mint_b 32, receive 8, bump 1
SeedWidth == 8          \* u64::to_le_bytes yields 8 bytes

ProgramId == "BzHmWns7farc1UMjxAzqjb684g43B9cv8ZHCXzwxJAxr"

\* Every address is a tuple, so that any two can be compared.
Maker == <<"wallet", "maker">>      \* let maker = Keypair::new()
Taker == <<"wallet", "taker">>      \* let taker = Keypair::new()
MintA == <<"mint", "a">>            \* let mint_a = CreateMint::new(..)
MintB == <<"mint", "b">>            \* let mint_b = CreateMint::new(..)
Keypairs == {Maker, Taker}
Mints == {MintA, MintB}
Seeds == {SeedA, SeedB}
Amounts == {k * Unit : k \in 0 .. MaxAmount}
NoKey == <<"none">>                 \* an account the instruction does not take

\* the three programs every instruction is sent with
AssociatedTokenProgram == <<"program", "spl_associated_token_account">>
TokenProgram == <<"program", "spl_token">>
SystemProgram == <<"program", "system_program">>

----------------------------------------------------------------------------
(* Address derivation. *)

RECURSIVE to_le_bytes_n(_, _)
to_le_bytes_n(n, k) ==
    IF k = 0 THEN <<>> ELSE <<n % 256>> \o to_le_bytes_n(n \div 256, k - 1)

\* the bytes of the seeds the tests use, converted once
SeedBytes == [seed \in Seeds |-> to_le_bytes_n(seed, SeedWidth)]

\* u64::to_le_bytes
to_le_bytes(seed) ==
    IF seed \in DOMAIN SeedBytes THEN SeedBytes[seed] ELSE to_le_bytes_n(seed, SeedWidth)

escrow_seeds_without_seed(maker, seed) == <<"escrow", maker>>

\* &[b"escrow", maker.pubkey().as_ref(), &seed.to_le_bytes()]
escrow_seeds(maker, seed) == <<"escrow", maker, to_le_bytes(seed)>>

\* Pubkey::find_program_address(seeds, &program_id): the hash is collision free, so
\* the address is the tuple of what is hashed; the bump is the proof value found.
find_program_address(seeds, program_id) ==
    [address |-> <<program_id, seeds>>, bump |-> <<"bump", seeds>>]

\* the address a stored proof value signs for
create_program_address(seeds, bump, program_id) ==
    IF bump = find_program_address(seeds, program_id).bump
    THEN find_program_address(seeds, program_id).address
    ELSE <<program_id, <<"invalid seeds">>>>

escrow_pda(maker, seed) ==
    find_program_address(escrow_seeds(maker, seed), ProgramId).address

\* the token address of a mint alone: every owner's account of a mint is one account
token_address_of_mint(owner, mint) == <<"ata", mint>>

\* get_associated_token_address(owner, mint)
get_associated_token_address(owner, mint) == <<"ata", owner, mint>>

Pairs == Keypairs \X Seeds
PairAddress(p) == escrow_pda(p[1], p[2])
EscrowAddresses == {PairAddress(p) : p \in Pairs}

----------------------------------------------------------------------------
(* The account store. *)

account_never_exists(store, address) == FALSE
account_exists(store, address) == address \in DOMAIN store

Put(store, address, value) ==
    [a \in DOMAIN store \cup {address} |->
        IF a = address THEN value ELSE store[a]]

Close(store, address) == [a \in DOMAIN store \ {address} |-> store[a]]

\* litesvm_token::get_spl_account(&svm, &address): the token account where one
\* is, an error where none is (the tests unwrap it)
get_spl_account(store, address) ==
    IF address \in DOMAIN store
    THEN [ok |-> TRUE, amount |-> store[address]]
    ELSE [ok |-> FALSE]

\* svm.minimum_balance_for_rent_exemption(data_len) of Rent::default(): 3480
\* lamports a byte and year, two years, 128 bytes of overhead; in tens of lamports
minimum_balance_for_rent_exemption(data_len) == (128 + data_len) * 696

\* rent-exempt minimum of an account, paid when the account is created and
\* returned when it is closed
Rent(kind) ==
    minimum_balance_for_rent_exemption(
        IF kind = "token" THEN TokenAccountLen
        ELSE IF kind = "mint" THEN MintLen
        ELSE EscrowLen)

Transfer(mint, from, to, amount) ==
    [mint |-> mint, from |-> from, to |-> to, amount |-> amount]

\* the token program's transfer: debit the source, credit the destination
ApplyTransfer(t, x) ==
    [t EXCEPT ![x.from] = @ - x.amount, ![x.to] = @ + x.amount]

\* what an instruction returns: its result, the stores after it, and the token
\* transfers it made
Outcome(result, e, t, s, moved) ==
    [result |-> result, escrow |-> e, tok |-> t, sol |-> s, moved |-> moved]

\* an error aborts the whole instruction: nothing is committed
Fail(kind) == Outcome(kind, escrow, tok, sol, <<>>)

\* the parties' token accounts an instruction is sent with
TokenAccounts(maker_ata_a, taker_ata_a, taker_ata_b, maker_ata_b) ==
    [maker_ata_a |-> maker_ata_a, taker_ata_a |-> taker_ata_a,
     taker_ata_b |-> taker_ata_b, maker_ata_b |-> maker_ata_b]

\* the programs an instruction is sent with
Programs(associated_token_program, token_program, system_program) ==
    [associated_token_program |-> associated_token_program,
     token_program |-> token_program, system_program |-> system_program]

\* the accounts an instruction is sent with, and the one keypair that signs the
\* transaction and pays for it
Context(signer, taker, maker, escrowAcc, mint_a, mint_b, vault, atas, programs) ==
    [signers |-> {signer}, payer |-> signer,
     taker |-> taker, maker |-> maker, escrow |-> escrowAcc,
     mint_a |-> mint_a, mint_b |-> mint_b, vault |-> vault,
     maker_ata_a |-> atas.maker_ata_a, taker_ata_a |-> atas.taker_ata_a,
     taker_ata_b |-> atas.taker_ata_b, maker_ata_b |-> atas.maker_ata_b,
     associated_token_program |-> programs.associated_token_program,
     token_program |-> programs.token_program,
     system_program |-> programs.system_program]

----------------------------------------------------------------------------
(* instructions::make::handler.  The maker's asset-A account is read as        *)
(* get_spl_account reads it: where the ledger holds no such account there is   *)
(* no amount to compare, and the make ends as one that lacks the funds.        *)

Escrow(seed, maker, mint_a, mint_b, receive, bump) ==
    [seed |-> seed, maker |-> maker, mint_a |-> mint_a, mint_b |-> mint_b,
     receive |-> receive, bump |-> bump]

\* the programs named in the accounts are the three the instruction calls
programs_match(ctx) ==
    /\ ctx.associated_token_program = AssociatedTokenProgram
    /\ ctx.token_program = TokenProgram
    /\ ctx.system_program = SystemProgram

make_handler(ctx, seed, receive, amount) ==
    LET pda    == find_program_address(escrow_seeds(ctx.maker, seed), ProgramId)
        source == get_associated_token_address(ctx.maker, ctx.mint_a)
        vault  == get_associated_token_address(pda.address, ctx.mint_a)
        rent   == Rent("escrow") + Rent("token")
        held   == get_spl_account(tok, source)
        t1     == Put(tok, vault, 0)
        deposit == Transfer(ctx.mint_a, source, vault, amount)
    IN  IF receive = 0 \/ amount = 0 THEN Fail("InvalidAmount")
        ELSE IF account_exists(escrow, pda.address) THEN Fail("DuplicateTrade")
        ELSE IF ctx.maker \notin ctx.signers THEN Fail("Unauthorized")
        ELSE IF ctx.escrow # pda.address \/ ctx.vault # vault
                \/ ctx.maker_ata_a # source \/ ~programs_match(ctx)
             THEN Fail("AddressMismatch")
        ELSE IF ~held.ok THEN Fail("InsufficientFunds")
        ELSE IF held.amount < amount THEN Fail("InsufficientFunds")
        ELSE Outcome("ok",
                     Put(escrow, pda.address,
                         Escrow(seed, ctx.maker, ctx.mint_a, ctx.mint_b, receive, pda.bump)),
                     ApplyTransfer(t1, deposit),
                     [sol EXCEPT ![ctx.maker] = @ - rent],
                     <<deposit>>)

(* instructions::take::handler.  The taker's asset-B account is read likewise; *)
(* the two destination accounts are created, empty, where the ledger holds     *)
(* none.                                                                       *)

take_handler(ctx) ==
    IF ~account_exists(escrow, ctx.escrow) THEN Fail("RecordNotFound")
    ELSE
    LET rec        == escrow[ctx.escrow]
        vault      == get_associated_token_address(ctx.escrow, rec.mint_a)
        taker_ata_a == get_associated_token_address(ctx.taker, rec.mint_a)
        taker_ata_b == get_associated_token_address(ctx.taker, rec.mint_b)
        maker_ata_b == get_associated_token_address(ctx.maker, rec.mint_b)
        held       == get_spl_account(tok, taker_ata_b)
        created    == {a \in {taker_ata_a, maker_ata_b} : ~account_exists(tok, a)}
        t0         == [a \in DOMAIN tok \cup created |->
                          IF a \in DOMAIN tok THEN tok[a] ELSE 0]
        pay        == Transfer(rec.mint_b, taker_ata_b, maker_ata_b, rec.receive)
        release    == Transfer(rec.mint_a, vault, taker_ata_a, tok[vault])
        t2         == ApplyTransfer(ApplyTransfer(t0, pay), release)
        s1         == [sol EXCEPT ![ctx.taker] = @ - Cardinality(created) * Rent("token")]
        s2         == [s1 EXCEPT ![ctx.maker] = @ + Rent("token") + Rent("escrow")]
    IN  IF ctx.mint_a # rec.mint_a \/ ctx.mint_b # rec.mint_b
        THEN Fail("AssetMismatch")
        ELSE IF ctx.maker # rec.maker THEN Fail("AddressMismatch")
        ELSE IF create_program_address(escrow_seeds(ctx.maker, rec.seed), rec.bump, ProgramId)
                    # ctx.escrow
                \/ ctx.vault # vault \/ ~account_exists(tok, vault)
             THEN Fail("AddressMismatch")
        ELSE IF ctx.taker_ata_a # taker_ata_a \/ ctx.taker_ata_b # taker_ata_b
                \/ ctx.maker_ata_b # maker_ata_b \/ ~programs_match(ctx)
             THEN Fail("AddressMismatch")
        ELSE IF ctx.taker \notin ctx.signers THEN Fail("Unauthorized")
        ELSE IF ~held.ok THEN Fail("InsufficientFunds")
        ELSE IF held.amount < rec.receive THEN Fail("InsufficientFunds")
        ELSE Outcome("ok", Close(escrow, ctx.escrow), Close(t2, vault), s2,
                     <<pay, release>>)

(* instructions::refund::handler *)

refund_handler(ctx) ==
    IF ~account_exists(escrow, ctx.escrow) THEN Fail("RecordNotFound")
    ELSE
    LET rec        == escrow[ctx.escrow]
        vault      == get_associated_token_address(ctx.escrow, rec.mint_a)
        maker_ata_a == get_associated_token_address(ctx.maker, rec.mint_a)
        t0         == [a \in DOMAIN tok \cup {maker_ata_a} |->
                          IF a \in DOMAIN tok THEN tok[a] ELSE 0]
        giveback   == Transfer(rec.mint_a, vault, maker_ata_a, tok[vault])
        s1         == [sol EXCEPT ![ctx.maker] = @ + Rent("token") + Rent("escrow")]
    IN  IF ctx.maker \notin ctx.signers \/ ctx.maker # rec.maker
        THEN Fail("Unauthorized")
        ELSE IF ctx.mint_a # rec.mint_a THEN Fail("AssetMismatch")
        ELSE IF create_program_address(escrow_seeds(ctx.maker, rec.seed), rec.bump, ProgramId)
                    # ctx.escrow
                \/ ctx.vault # vault \/ ~account_exists(tok, vault)
             THEN Fail("AddressMismatch")
        ELSE IF ctx.maker_ata_a # maker_ata_a \/ ~programs_match(ctx)
             THEN Fail("AddressMismatch")
        ELSE Outcome("ok", Close(escrow, ctx.escrow),
                     Close(ApplyTransfer(t0, giveback), vault), s1, <<giveback>>)

----------------------------------------------------------------------------
(* The program's entry points (lib.rs). *)

make_args_swapped(ctx, seed, receive, amount) == make_handler(ctx, seed, amount, receive)
make_seed_as_receive(ctx, seed, receive, amount) == make_handler(ctx, seed, seed, amount)

make_taking_all_as_signers(ctx, seed, receive, amount) ==
    make_handler([ctx EXCEPT !.signers = Keypairs], seed, receive, amount)

make(ctx, seed, receive, amount) == make_handler(ctx, seed, receive, amount)

take_routed_to_refund(ctx) == refund_handler(ctx)

take(ctx) == take_handler(ctx)

refund_routed_to_take(ctx) == take_handler(ctx)

refund(ctx) == refund_handler(ctx)

----------------------------------------------------------------------------
(* History kept beside the ledger, to state what a whole trade did. *)

NoTerms ==
    [made |-> FALSE, receive |-> 0, amount |-> 0, a_before |-> 0, s_before |-> 0,
     f_before |-> 0]

NoContext ==
    Context(NoKey, NoKey, NoKey, NoKey, NoKey, NoKey, NoKey,
            TokenAccounts(NoKey, NoKey, NoKey, NoKey), Programs(NoKey, NoKey, NoKey))

Idle == [take |-> NoContext, refund |-> NoContext, todo |-> {}, done |-> <<>>]

\* the (maker, seed) of the record an instruction was sent against
Traded(ctx) ==
    IF account_exists(escrow, ctx.escrow)
    THEN {<<escrow[ctx.escrow].maker, escrow[ctx.escrow].seed>>}
    ELSE {}

\* asset B of the record's receive amount reached the record's maker
PaidMaker(ctx, moved) ==
    /\ account_exists(escrow, ctx.escrow)
    /\ LET rec == escrow[ctx.escrow]
           ToMaker(x) ==
               /\ x.mint = rec.mint_b
               /\ x.to = get_associated_token_address(rec.maker, rec.mint_b)
               /\ x.amount = rec.receive
       IN  \E i \in 1 .. Len(moved) : ToMaker(moved[i])

\* asset A left the record's vault
LeftVault(ctx, moved) ==
    /\ account_exists(escrow, ctx.escrow)
    /\ LET rec == escrow[ctx.escrow]
           FromVault(x) ==
               x.from = get_associated_token_address(ctx.escrow, rec.mint_a)
       IN  \E i \in 1 .. Len(moved) : FromVault(moved[i])

\* what send_transaction takes from the fee payer: the fee of each signature
TxFee(ctx) == Fee * Cardinality(ctx.signers)

Commit_without_lamports(op, ctx, target, r) ==
    /\ escrow' = r.escrow
    /\ tok' = r.tok
    /\ sol' = [sol EXCEPT ![ctx.payer] = @ - TxFee(ctx)]
    /\ last' = [op |-> op, escrow |-> target,
                paid |-> PaidMaker(ctx, r.moved),
                released |-> LeftVault(ctx, r.moved)]

\* what a transaction whose instruction succeeded commits, the fee included,
\* and the note of it
Commit(op, ctx, target, r) ==
    /\ escrow' = r.escrow
    /\ tok' = r.tok
    /\ sol' = [r.sol EXCEPT ![ctx.payer] = @ - TxFee(ctx)]
    /\ last' = [op |-> op, escrow |-> target,
                paid |-> PaidMaker(ctx, r.moved),
                released |-> LeftVault(ctx, r.moved)]

\* a transaction whose instruction failed commits nothing of the instruction;
\* the fee payer is charged all the same
Abort(ctx) ==
    /\ sol' = [sol EXCEPT ![ctx.payer] = @ - TxFee(ctx)]
    /\ UNCHANGED <<escrow, tok, last, terms>>

----------------------------------------------------------------------------
(* The ledger the tests set up before the first instruction. *)

\* what the setup has taken from a keypair's airdrop before the first
\* instruction.  The maker pays for the two mints, for the maker's token
\* accounts and for the two mintings; the taker pays for the taker's token
\* accounts.  One test creates all four token accounts (precreated), the other
\* only the two that are funded.
SetupCost(k, precreated) ==
    LET accounts == IF precreated THEN 2 ELSE 1
    IN  IF k = Maker
        THEN 2 * (Rent("mint") + MintSigners * Fee)
             + accounts * (Rent("token") + Fee) + 2 * Fee
        ELSE accounts * (Rent("token") + Fee)

Init ==
    /\ escrow = <<>>
    /\ \E precreated \in BOOLEAN :
          /\ tok = [a \in {get_associated_token_address(Maker, MintA),
                        get_associated_token_address(Taker, MintB)}
                       \cup (IF precreated
                             THEN {get_associated_token_address(Taker, MintA),
                                   get_associated_token_address(Maker, MintB)}
                             ELSE {}) |->
                    IF a = get_associated_token_address(Maker, MintA) THEN MintedA
                    ELSE IF a = get_associated_token_address(Taker, MintB) THEN MintedB
                    ELSE 0]
          /\ sol = [k \in Keypairs |-> Airdrop - SetupCost(k, precreated)]
    /\ last = [op |-> "none", escrow |-> NoKey, paid |-> FALSE, released |-> FALSE]
    /\ terms = [p \in Pairs |-> NoTerms]
    /\ race = Idle
    /\ sent = [count |-> 0, fee |-> [k \in Keypairs |-> 0]]

----------------------------------------------------------------------------
(* One step per instruction sent to the program. *)

\* the host takes a transaction whose fee payer can pay the fee
Payable(ctx) == sol[ctx.payer] >= TxFee(ctx)

\* the fees paid, after the fee payer has paid for one more transaction
Charged(ctx) == [sent.fee EXCEPT ![ctx.payer] = @ + TxFee(ctx)]

\* a transaction that closes a trade
Closing(result, isMake) == result = "ok" /\ ~isMake

\* the count of makes committed and transactions failed, and the fees paid,
\* after one more transaction
Counted(result, isMake, ctx) ==
    [count |-> IF Closing(result, isMake) THEN sent.count ELSE sent.count + 1,
     fee   |-> Charged(ctx)]

\* the transactions followed: every one that closes a trade, the others up to
\* MaxSent of them
Followed(result, isMake) == Closing(result, isMake) \/ sent.count < MaxSent

MakeStep(ctx, seed, receive, amount) ==
    LET r == make(ctx, seed, receive, amount)
        p == <<ctx.maker, seed>>
    IN  /\ Payable(ctx)
        /\ IF r.result = "ok"
           THEN /\ Commit("make", ctx, escrow_pda(ctx.maker, seed), r)
                /\ terms' = [terms EXCEPT ![p] =
                       [made |-> TRUE, receive |-> receive, amount |-> amount,
                        a_before |-> tok[get_associated_token_address(ctx.maker, ctx.mint_a)],
                        s_before |-> sol[ctx.maker],
                        f_before |-> sent.fee[ctx.maker]]]
           ELSE Abort(ctx)

CloseStep(op, ctx, r) ==
    /\ Payable(ctx)
    /\ IF r.result = "ok"
       THEN /\ Commit(op, ctx, ctx.escrow, r)
            /\ terms' = [p \in Pairs |-> IF p \in Traded(ctx) THEN NoTerms ELSE terms[p]]
       ELSE Abort(ctx)

\* an escrow address other than the given one, for a caller that passes the
\* vault of another trade
OtherAddress(acc) == CHOOSE a \in EscrowAddresses : a # acc

\* a keypair other than the given one, for a caller that passes the token
\* account of another party
OtherKeypair(k) == CHOOSE x \in Keypairs : x # k

\* a program other than the given one
OtherProgram(id) == IF id = SystemProgram THEN TokenProgram ELSE SystemProgram

\* the mints a caller may pass as (mint_a, mint_b): the pair the tests pass, and
\* one with the wrong mint_a and one with the wrong mint_b
MintPairs == {<<MintA, MintB>>, <<MintB, MintB>>, <<MintA, MintA>>}

\* the programs the tests pass
RightPrograms == Programs(AssociatedTokenProgram, TokenProgram, SystemProgram)

\* the token accounts the tests pass: each party's own account of each mint
\* (no key stands where the instruction names no such party or mint)
OwnAccount(owner, mint) ==
    IF owner = NoKey \/ mint = NoKey THEN NoKey
    ELSE get_associated_token_address(owner, mint)

OwnAccounts(maker, taker, mint_a, mint_b) ==
    TokenAccounts(OwnAccount(maker, mint_a), OwnAccount(taker, mint_a),
                  OwnAccount(taker, mint_b), OwnAccount(maker, mint_b))

\* the accounts of the tests with one of them replaced: a token account by the
\* other party's account of the same mint, a program by another program
Replaced(ctx, field) ==
    CASE field = "maker_ata_a" ->
           [ctx EXCEPT !.maker_ata_a = OwnAccount(OtherKeypair(ctx.maker), ctx.mint_a)]
      [] field = "taker_ata_a" ->
           [ctx EXCEPT !.taker_ata_a = OwnAccount(OtherKeypair(ctx.taker), ctx.mint_a)]
      [] field = "taker_ata_b" ->
           [ctx EXCEPT !.taker_ata_b = OwnAccount(OtherKeypair(ctx.taker), ctx.mint_b)]
      [] field = "maker_ata_b" ->
           [ctx EXCEPT !.maker_ata_b = OwnAccount(OtherKeypair(ctx.maker), ctx.mint_b)]
      [] field = "associated_token_program" ->
           [ctx EXCEPT !.associated_token_program = OtherProgram(@)]
      [] field = "token_program" ->
           [ctx EXCEPT !.token_program = OtherProgram(@)]
      [] field = "system_program" ->
           [ctx EXCEPT !.system_program = OtherProgram(@)]

ProgramFields == {"associated_token_program", "token_program", "system_program"}

\* what a caller may send to make: every choice of signer, named accounts and
\* arguments with the token account and programs of the tests; and, signed by
\* the maker with the derived accounts and the amounts of the tests, one account
\* replaced
MakeRequests ==
    {[ctx |-> Context(signer, NoKey, maker, escrow_pda(maker, named), MintA, MintB,
                      get_associated_token_address(escrow_pda(maker, named), MintA),
                      OwnAccounts(maker, NoKey, MintA, NoKey), RightPrograms),
      seed |-> seed, receive |-> receive, amount |-> amount] :
        signer \in Keypairs, maker \in Keypairs, seed \in Seeds, named \in Seeds,
        receive \in Amounts, amount \in Amounts}
    \cup
    {[ctx |-> Replaced(Context(maker, NoKey, maker, escrow_pda(maker, seed), MintA, MintB,
                               get_associated_token_address(escrow_pda(maker, seed), MintA),
                               OwnAccounts(maker, NoKey, MintA, NoKey), RightPrograms),
                       field),
      seed |-> seed, receive |-> Unit, amount |-> Unit] :
        maker \in Keypairs, seed \in Seeds,
        field \in {"maker_ata_a"} \cup ProgramFields}

\* what a caller may send to take: every choice of signer, parties, record,
\* mints and vault with the token accounts and programs of the tests; and,
\* signed by the taker with the mints and the vault of the record, one account
\* replaced
TakeContexts ==
    {Context(signer, taker, maker, acc, mints[1], mints[2],
             get_associated_token_address(
                 IF swapVault THEN OtherAddress(acc) ELSE acc, mints[1]),
             OwnAccounts(maker, taker, mints[1], mints[2]), RightPrograms) :
        signer \in Keypairs, taker \in Keypairs, maker \in Keypairs,
        acc \in EscrowAddresses, mints \in MintPairs, swapVault \in BOOLEAN}
    \cup
    {Replaced(Context(taker, taker, maker, acc, MintA, MintB,
                      get_associated_token_address(acc, MintA),
                      OwnAccounts(maker, taker, MintA, MintB), RightPrograms),
              field) :
        taker \in Keypairs, maker \in Keypairs, acc \in EscrowAddresses,
        field \in {"taker_ata_a", "taker_ata_b", "maker_ata_b"} \cup ProgramFields}

\* what a caller may send to refund, likewise
RefundContexts ==
    {Context(signer, NoKey, maker, acc, mint_a, NoKey,
             get_associated_token_address(
                 IF swapVault THEN OtherAddress(acc) ELSE acc, mint_a),
             OwnAccounts(maker, NoKey, mint_a, NoKey), RightPrograms) :
        signer \in Keypairs, maker \in Keypairs, acc \in EscrowAddresses,
        mint_a \in Mints, swapVault \in BOOLEAN}
    \cup
    {Replaced(Context(maker, NoKey, maker, acc, MintA, NoKey,
                      get_associated_token_address(acc, MintA),
                      OwnAccounts(maker, NoKey, MintA, NoKey), RightPrograms),
              field) :
        maker \in Keypairs, acc \in EscrowAddresses,
        field \in {"maker_ata_a"} \cup ProgramFields}

Make ==
    /\ race.todo = {}
    /\ \E req \in MakeRequests :
          \E r \in {make(req.ctx, req.seed, req.receive, req.amount)} :
             /\ Followed(r.result, TRUE)
             /\ MakeStep(req.ctx, req.seed, req.receive, req.amount)
             /\ sent' = Counted(r.result, TRUE, req.ctx)
             /\ race' = IF r.result = "ok" THEN Idle ELSE race

Take ==
    /\ race.todo = {}
    /\ \E ctx \in TakeContexts :
          \E r \in {take(ctx)} :
             /\ Followed(r.result, FALSE)
             /\ CloseStep("take", ctx, r)
             /\ sent' = Counted(r.result, FALSE, ctx)
             /\ race' = IF r.result = "ok" THEN Idle ELSE race

Refund ==
    /\ race.todo = {}
    /\ \E ctx \in RefundContexts :
          \E r \in {refund(ctx)} :
             /\ Followed(r.result, FALSE)
             /\ CloseStep("refund", ctx, r)
             /\ sent' = Counted(r.result, FALSE, ctx)
             /\ race' = IF r.result = "ok" THEN Idle ELSE race

(* A take and a refund sent at the same time against one open trade: the host  *)
(* commits the two in either order, each as one indivisible transaction.       *)

Submit ==
    /\ race.todo = {}
    /\ \E acc \in DOMAIN escrow, taker \in Keypairs :
          LET rec   == escrow[acc]
              vault == get_associated_token_address(acc, rec.mint_a)
              held  == get_spl_account(tok, get_associated_token_address(taker, rec.mint_b))
          IN  /\ held.ok
              /\ held.amount >= rec.receive
              /\ race' = [take   |-> Context(taker, taker, rec.maker, acc,
                                            rec.mint_a, rec.mint_b, vault,
                                            OwnAccounts(rec.maker, taker,
                                                        rec.mint_a, rec.mint_b),
                                            RightPrograms),
                          refund |-> Context(rec.maker, NoKey, rec.maker, acc,
                                            rec.mint_a, NoKey, vault,
                                            OwnAccounts(rec.maker, NoKey,
                                                        rec.mint_a, NoKey),
                                            RightPrograms),
                          todo   |-> {"take", "refund"},
                          done   |-> <<>>]
    /\ last' = [op |-> "submit", escrow |-> NoKey, paid |-> FALSE, released |-> FALSE]
    /\ UNCHANGED <<escrow, tok, sol, terms, sent>>

RaceTake ==
    /\ "take" \in race.todo
    /\ LET r == take(race.take)
       IN  /\ CloseStep("take", race.take, r)
           /\ race' = [race EXCEPT !.todo = @ \ {"take"}, !.take = NoContext,
                                   !.done = Append(@, <<"take", r.result>>)]
    /\ sent' = [sent EXCEPT !.fee = Charged(race.take)]

RaceRefund ==
    /\ "refund" \in race.todo
    /\ LET r == refund(race.refund)
       IN  /\ CloseStep("refund", race.refund, r)
           /\ race' = [race EXCEPT !.todo = @ \ {"refund"}, !.refund = NoContext,
                                   !.done = Append(@, <<"refund", r.result>>)]
    /\ sent' = [sent EXCEPT !.fee = Charged(race.refund)]

Next == Make \/ Take \/ Refund \/ Submit \/ RaceTake \/ RaceRefund

Spec == Init /\ [][Next]_vars

(* Scheduling.  The host runs every instruction it has accepted to completion,  *)
(* so the two instructions of a concurrent submission are both committed; and   *)
(* the maker of a trade, who can send its refund whenever the host takes        *)
(* instructions, is not put off for ever.                                       *)

\* the refund of the trade of (maker, seed), signed by the maker and sent with
\* the trade's accounts
MakerRefund(p) ==
    /\ race.todo = {}
    /\ terms[p].made
    /\ \E ctx \in {Context(p[1], NoKey, p[1], escrow_pda(p[1], p[2]), MintA, NoKey,
                            get_associated_token_address(escrow_pda(p[1], p[2]), MintA),
                            OwnAccounts(p[1], NoKey, MintA, NoKey), RightPrograms)} :
          \E r \in {refund(ctx)} :
             /\ Followed(r.result, FALSE)
             /\ CloseStep("refund", ctx, r)
             /\ sent' = Counted(r.result, FALSE, ctx)
             /\ race' = IF r.result = "ok" THEN Idle ELSE race

FairSpec ==
    /\ Spec
    /\ WF_vars(RaceTake) /\ WF_vars(RaceRefund)
    /\ \A p \in Pairs : SF_vars(MakerRefund(p))

----------------------------------------------------------------------------
(* What the claims speak of. *)

\* the addresses of the record and of the vault of each (maker, seed)
RecordOf == [q \in Pairs |-> escrow_pda(q[1], q[2])]
VaultOf == [q \in Pairs |-> get_associated_token_address(RecordOf[q], MintA)]
Pda(p) == RecordOf[p]
Vault(p) == VaultOf[p]
Ata(owner, mint) == get_associated_token_address(owner, mint)
Open(p) == terms[p].made
OpenPairs == {p \in Pairs : Open(p)}

\* the takes and the refunds that name the record of each (maker, seed)
TakesAt == [p \in Pairs |-> {ctx \in TakeContexts : ctx.escrow = RecordOf[p]}]
RefundsAt == [p \in Pairs |-> {ctx \in RefundContexts : ctx.escrow = RecordOf[p]}]
\* what an owner holds of a mint in a store of token accounts: the amount of
\* the account that get_spl_account finds, and nothing where it finds none
Held(store, address) ==
    LET found == get_spl_account(store, address)
    IN  IF found.ok THEN found.amount ELSE 0

\* the token accounts and programs an instruction is sent with are the parties'
\* own accounts of the instruction's mints and the three programs of the tests
OwnTokenAccounts(ctx) ==
    /\ ctx.maker_ata_a = OwnAccount(ctx.maker, ctx.mint_a)
    /\ ctx.taker_ata_a = OwnAccount(ctx.taker, ctx.mint_a)
    /\ ctx.taker_ata_b = OwnAccount(ctx.taker, ctx.mint_b)
    /\ ctx.maker_ata_b = OwnAccount(ctx.maker, ctx.mint_b)
    /\ programs_match(ctx)

Unchanged(r) == r.escrow = escrow /\ r.tok = tok /\ r.sol = sol /\ r.moved = <<>>

\* a take of the open trade p by taker, sent with the accounts of that trade and
\* signed by the taker
WellFormedTake(ctx, p, taker) ==
    /\ ctx.signers = {taker} /\ ctx.taker = taker /\ ctx.maker = p[1]
    /\ ctx.escrow = Pda(p) /\ ctx.vault = Vault(p)
    /\ ctx.mint_a = MintA /\ ctx.mint_b = MintB
    /\ OwnTokenAccounts(ctx)

\* a refund of the open trade p, sent with the accounts of that trade and signed
\* by its maker
WellFormedRefund(ctx, p) ==
    /\ ctx.signers = {p[1]} /\ ctx.maker = p[1]
    /\ ctx.escrow = Pda(p) /\ ctx.vault = Vault(p) /\ ctx.mint_a = MintA
    /\ OwnTokenAccounts(ctx)

----------------------------------------------------------------------------
(* C1: for every open trade made with deposit_amount and receive_amount, a take *)
(* by a second party that holds at least receive_amount of asset B, sent with   *)
(* the trade's accounts, succeeds; it raises the taker's asset-A balance by     *)
(* deposit_amount and the maker's asset-B balance by receive_amount, lowers the *)
(* taker's asset-B balance by receive_amount, and leaves no record and no vault.*)
C1_MakeThenTake ==
    \A p \in OpenPairs, taker \in Keypairs : \A ctx \in TakesAt[p] :
        (/\ Open(p)
         /\ taker # p[1]
         /\ WellFormedTake(ctx, p, taker)
         /\ Held(tok, Ata(taker, MintB)) >= terms[p].receive)
        => LET r == take(ctx)
           IN  /\ r.result = "ok"
               /\ Held(r.tok, Ata(taker, MintA))
                     = Held(tok, Ata(taker, MintA)) + terms[p].amount
               /\ Held(r.tok, Ata(p[1], MintB))
                     = Held(tok, Ata(p[1], MintB)) + terms[p].receive
               /\ Held(r.tok, Ata(taker, MintB))
                     = Held(tok, Ata(taker, MintB)) - terms[p].receive
               /\ ~account_exists(r.escrow, Pda(p))
               /\ ~account_exists(r.tok, Vault(p))

\* the tests' scenario: deposit 1_000_000_000, receive 500_000_000, seed 42, taken
C1_Witness ==
    /\ last.op = "take" /\ last.escrow = Pda(<<Maker, SeedA>>)
    /\ Held(tok, Ata(Taker, MintA)) = 1000000000
    /\ Held(tok, Ata(Taker, MintB)) = 0
    /\ Held(tok, Ata(Maker, MintB)) = 500000000
    /\ ~account_exists(escrow, Pda(<<Maker, SeedA>>))
    /\ ~account_exists(tok, Vault(<<Maker, SeedA>>))

(* C7: a make that succeeds leaves the vault holding deposit_amount, the maker's *)
(* asset-A account lowered by deposit_amount, and a record at the address of     *)
(* (maker, seed) that stores receive_amount, the maker and both mints.           *)
C7_MakePostcondition ==
    /\ \A req \in MakeRequests :
          LET r == make(req.ctx, req.seed, req.receive, req.amount)
              p == <<req.ctx.maker, req.seed>>
              source == Ata(req.ctx.maker, req.ctx.mint_a)
          IN  r.result = "ok" =>
                /\ account_exists(r.tok, Vault(p))
                /\ Held(r.tok, Vault(p)) = req.amount
                /\ Held(r.tok, source) = Held(tok, source) - req.amount
                /\ account_exists(r.escrow, Pda(p))
                /\ r.escrow[Pda(p)].receive = req.receive
                /\ r.escrow[Pda(p)].maker = req.ctx.maker
                /\ r.escrow[Pda(p)].seed = req.seed
                /\ r.escrow[Pda(p)].mint_a = req.ctx.mint_a
                /\ r.escrow[Pda(p)].mint_b = req.ctx.mint_b
    /\ \A p \in Pairs :
          (last.op = "make" /\ last.escrow = Pda(p)) =>
                /\ account_exists(escrow, Pda(p))
                /\ escrow[Pda(p)].receive = terms[p].receive
                /\ escrow[Pda(p)].maker = p[1]
                /\ Held(tok, Vault(p)) = terms[p].amount
                /\ Held(tok, Ata(p[1], MintA)) = terms[p].a_before - terms[p].amount

\* the tests' make: the vault holds 1_000_000_000 and the maker's account 0
C7_Witness ==
    /\ last.op = "make" /\ last.escrow = Pda(<<Maker, SeedA>>)
    /\ account_exists(escrow, Pda(<<Maker, SeedA>>))
    /\ escrow[Pda(<<Maker, SeedA>>)].receive = 500000000
    /\ Held(tok, Vault(<<Maker, SeedA>>)) = 1000000000
    /\ Held(tok, Ata(Maker, MintA)) = 0

(* C2: a take makes both transfers or neither.  In every state the take         *)
(* committed last has paid asset B to the maker and released asset A from the   *)
(* vault, and its record is gone; every take that can be sent pays the maker if *)
(* and only if it releases the vault, does both and deletes the record when it  *)
(* succeeds, and does neither and changes nothing when it fails; and the vault  *)
(* of a trade that is still open holds the whole deposit.                       *)
C2_TakeAtomic ==
    /\ last.op = "take" =>
          last.paid /\ last.released /\ ~account_exists(escrow, last.escrow)
    /\ \A ctx \in TakeContexts :
          LET r == take(ctx)
          IN  /\ PaidMaker(ctx, r.moved) <=> LeftVault(ctx, r.moved)
              /\ r.result = "ok" =>
                    /\ PaidMaker(ctx, r.moved) /\ LeftVault(ctx, r.moved)
                    /\ ~account_exists(r.escrow, ctx.escrow)
              /\ r.result # "ok" => Unchanged(r)
    /\ \A p \in Pairs :
          Open(p) => account_exists(escrow, Pda(p))
                     /\ Held(tok, Vault(p)) = terms[p].amount

C2_Witness ==
    /\ last.op = "take" /\ last.paid /\ last.released
    /\ last.escrow \in EscrowAddresses
    /\ ~account_exists(escrow, last.escrow)

(* C3: for every open trade, a refund signed by its maker and sent with the     *)
(* trade's accounts succeeds; it returns the whole deposit_amount to the maker  *)
(* (when the make was the instruction before, the maker's asset-A balance is    *)
(* again what it was before the make), changes no other token account, and      *)
(* leaves no record and no vault.                                               *)
C3_MakeThenRefund ==
    \A p \in OpenPairs : \A ctx \in RefundsAt[p] :
        (Open(p) /\ WellFormedRefund(ctx, p))
        => LET r == refund(ctx)
               maker_ata_a == Ata(p[1], MintA)
           IN  /\ r.result = "ok"
               /\ Held(r.tok, maker_ata_a)
                     = Held(tok, maker_ata_a) + terms[p].amount
               /\ (last.op = "make" /\ last.escrow = Pda(p))
                     => Held(r.tok, maker_ata_a) = terms[p].a_before
               /\ DOMAIN r.tok = DOMAIN tok \ {Vault(p)}
               /\ \A a \in DOMAIN tok \ {maker_ata_a, Vault(p)} : r.tok[a] = tok[a]
               /\ ~account_exists(r.escrow, Pda(p))
               /\ ~account_exists(r.tok, Vault(p))

\* the tests' make, refunded: the maker holds its 1_000_000_000 again
C3_Witness ==
    /\ last.op = "refund" /\ last.escrow = Pda(<<Maker, SeedA>>)
    /\ Held(tok, Ata(Maker, MintA)) = 1000000000
    /\ Held(tok, Ata(Taker, MintB)) = 500000000
    /\ ~account_exists(escrow, Pda(<<Maker, SeedA>>))
    /\ ~account_exists(tok, Vault(<<Maker, SeedA>>))

\* every take and every refund sent against the address of p fails with
\* RecordNotFound and changes nothing
ClosedTo(p) ==
    /\ \A ctx \in TakeContexts :
          ctx.escrow = Pda(p) =>
              take(ctx).result = "RecordNotFound" /\ Unchanged(take(ctx))
    /\ \A ctx \in RefundContexts :
          ctx.escrow = Pda(p) =>
              refund(ctx).result = "RecordNotFound" /\ Unchanged(refund(ctx))

(* C4 as claimed: once a take or refund has closed a trade, every later take or *)
(* refund on its (maker, seed) fails with RecordNotFound; so after the          *)
(* instruction committed next, whichever it is, they still do.                  *)
C4_AsClaimed ==
    [][\A p \in Pairs :
          (last.op \in {"take", "refund"} /\ last.escrow = Pda(p)) => ClosedTo(p)']_vars

(* C4, amended: for every (maker, seed) with no open trade, in particular from  *)
(* the take or refund that closed its trade until a make opens a new one, every *)
(* take and every refund on it fails with RecordNotFound and changes nothing.   *)
C4_ClosedUntilRemade == \A p \in Pairs : ~Open(p) => ClosedTo(p)

C4_Witness ==
    \E p \in Pairs :
        /\ last.op \in {"take", "refund"} /\ last.escrow = Pda(p)
        /\ ~Open(p)
        /\ \E ctx \in TakeContexts :
              ctx.escrow = Pda(p) /\ take(ctx).result = "RecordNotFound"

(* C5: a refund sent against an open trade and signed by anyone but the maker   *)
(* stored in its record fails with Unauthorized, whatever the other accounts,   *)
(* and changes nothing.                                                         *)
C5_RefundUnauthorized ==
    \A ctx \in RefundContexts :
        (account_exists(escrow, ctx.escrow)
         /\ escrow[ctx.escrow].maker \notin ctx.signers)
        => /\ refund(ctx).result = "Unauthorized"
           /\ Unchanged(refund(ctx))

\* the taker signs a refund that names the open trade's own maker and accounts
C5_Witness ==
    \E p \in Pairs, ctx \in RefundContexts :
        /\ Open(p) /\ account_exists(escrow, Pda(p))
        /\ ctx.signers = {Taker} /\ p[1] = Maker
        /\ ctx.maker = Maker /\ ctx.escrow = Pda(p) /\ ctx.vault = Vault(p)
        /\ ctx.mint_a = MintA
        /\ refund(ctx).result = "Unauthorized"
        /\ Held(tok, Vault(p)) = terms[p].amount

(* C6: when a take and a refund of one open trade are sent together, then in    *)
(* either order of commitment exactly one of the two succeeds and the other     *)
(* fails with RecordNotFound.                                                   *)
C6_RaceOneWinner ==
    (race.todo = {} /\ Len(race.done) = 2)
    => \E i \in 1 .. 2 :
          /\ race.done[i][2] = "ok"
          /\ race.done[3 - i][2] = "RecordNotFound"
          /\ race.done[i][1] # race.done[3 - i][1]

C6_Witness ==
    /\ race.todo = {} /\ Len(race.done) = 2
    /\ race.done[1] = <<"refund", "ok">>
    /\ race.done[2] = <<"take", "RecordNotFound">>

(* C8: a take sent against an open trade with a mint_a or a mint_b other than   *)
(* the record's fails with AssetMismatch and changes nothing.                   *)
C8_TakeAssetMismatch ==
    \A ctx \in TakeContexts :
        (account_exists(escrow, ctx.escrow)
         /\ (ctx.mint_a # escrow[ctx.escrow].mint_a
             \/ ctx.mint_b # escrow[ctx.escrow].mint_b))
        => /\ take(ctx).result = "AssetMismatch"
           /\ Unchanged(take(ctx))

\* a funded taker sends an otherwise matching take with the wrong mint_b
C8_Witness ==
    \E p \in Pairs, ctx \in TakeContexts :
        /\ Open(p) /\ account_exists(escrow, Pda(p))
        /\ ctx.signers = {Taker} /\ ctx.taker = Taker /\ ctx.maker = p[1]
        /\ ctx.escrow = Pda(p) /\ ctx.vault = Vault(p)
        /\ ctx.mint_a = MintA /\ ctx.mint_b = MintA
        /\ Held(tok, Ata(Taker, MintB)) >= terms[p].receive
        /\ take(ctx).result = "AssetMismatch"

(* C9: a make with deposit_amount = 0 or receive_amount = 0 fails with          *)
(* InvalidAmount; no record or vault is created and no balance changes.         *)
C9_MakeInvalidAmount ==
    \A req \in MakeRequests :
        (req.amount = 0 \/ req.receive = 0)
        => LET r == make(req.ctx, req.seed, req.receive, req.amount)
           IN  r.result = "InvalidAmount" /\ Unchanged(r)

\* the funded maker sends an otherwise valid make that asks for nothing in return
C9_Witness ==
    \E req \in MakeRequests :
        /\ req.receive = 0 /\ req.amount > 0
        /\ req.ctx.signers = {req.ctx.maker}
        /\ req.ctx.escrow = escrow_pda(req.ctx.maker, req.seed)
        /\ Held(tok, Ata(req.ctx.maker, MintA)) >= req.amount
        /\ ~account_exists(escrow, req.ctx.escrow)
        /\ make(req.ctx, req.seed, req.receive, req.amount).result = "InvalidAmount"

(* C10: a make with non-zero amounts for a (maker, seed) whose trade is open,   *)
(* so that its record exists, fails with DuplicateTrade; the record, the vault  *)
(* and every balance are as before.                                             *)
C10_MakeDuplicate ==
    \A req \in MakeRequests :
        (req.amount > 0 /\ req.receive > 0
         /\ Open(<<req.ctx.maker, req.seed>>))
        => LET r == make(req.ctx, req.seed, req.receive, req.amount)
           IN  r.result = "DuplicateTrade" /\ Unchanged(r)

\* the maker of an open trade, still funded, sends the same make again
C10_Witness ==
    \E req \in MakeRequests :
        /\ Open(<<req.ctx.maker, req.seed>>)
        /\ req.amount > 0 /\ req.receive > 0
        /\ req.ctx.signers = {req.ctx.maker}
        /\ req.ctx.escrow = escrow_pda(req.ctx.maker, req.seed)
        /\ Held(tok, Ata(req.ctx.maker, MintA)) >= req.amount
        /\ make(req.ctx, req.seed, req.receive, req.amount).result = "DuplicateTrade"

(* C11: a take of an open trade, sent with the trade's accounts and signed by a *)
(* taker whose asset-B account holds less than the record's receive_amount,     *)
(* fails with                                                                   *)
(* InsufficientFunds and changes nothing: the vault keeps the deposit, no asset *)
(* B moves, the trade stays open, and the maker's refund of it still succeeds.  *)
C11_TakeInsufficientFunds ==
    \A p \in OpenPairs, taker \in Keypairs : \A ctx \in TakesAt[p] :
        (/\ Open(p) /\ WellFormedTake(ctx, p, taker)
         /\ get_spl_account(tok, Ata(taker, MintB)).ok
         /\ get_spl_account(tok, Ata(taker, MintB)).amount < terms[p].receive)
        => LET r == take(ctx)
           IN  /\ r.result = "InsufficientFunds"
               /\ Unchanged(r)
               /\ account_exists(r.escrow, Pda(p))
               /\ Held(r.tok, Vault(p)) = terms[p].amount
               /\ \A ctx2 \in RefundContexts :
                     WellFormedRefund(ctx2, p) => refund(ctx2).result = "ok"

\* the taker holds 500_000_000 of asset B and the maker asks for 1_000_000_000
C11_Witness ==
    \E p \in Pairs, ctx \in TakeContexts :
        /\ Open(p) /\ p[1] = Maker /\ WellFormedTake(ctx, p, Taker)
        /\ terms[p].receive = 1000000000
        /\ get_spl_account(tok, Ata(Taker, MintB)) = [ok |-> TRUE, amount |-> 500000000]
        /\ take(ctx).result = "InsufficientFunds"
        /\ Held(tok, Vault(p)) = terms[p].amount

\* a make of a new trade, signed by its maker and naming the derived accounts,
\* the maker's own asset-A account and the three programs
WellFormedMake(req) ==
    /\ req.amount > 0 /\ req.receive > 0
    /\ req.ctx.signers = {req.ctx.maker}
    /\ req.ctx.escrow = escrow_pda(req.ctx.maker, req.seed)
    /\ req.ctx.maker_ata_a = Ata(req.ctx.maker, req.ctx.mint_a)
    /\ programs_match(req.ctx)
    /\ ~Open(<<req.ctx.maker, req.seed>>)

(* C12: a make of a new trade, otherwise valid, by a maker whose asset-A        *)
(* account holds less than deposit_amount fails with InsufficientFunds; no      *)
(* record and no vault exists for the pair afterwards and no balance has        *)
(* changed.                                                                     *)
C12_MakeInsufficientFunds ==
    \A req \in MakeRequests :
        (/\ WellFormedMake(req)
         /\ get_spl_account(tok, Ata(req.ctx.maker, MintA)).ok
         /\ get_spl_account(tok, Ata(req.ctx.maker, MintA)).amount < req.amount)
        => LET r == make(req.ctx, req.seed, req.receive, req.amount)
               p == <<req.ctx.maker, req.seed>>
           IN  /\ r.result = "InsufficientFunds"
               /\ Unchanged(r)
               /\ ~account_exists(r.escrow, Pda(p))
               /\ ~account_exists(r.tok, Vault(p))

\* the maker has 500_000_000 of asset A left in hand and offers 1_000_000_000
C12_Witness ==
    \E req \in MakeRequests :
        /\ WellFormedMake(req) /\ req.ctx.maker = Maker
        /\ req.amount = 1000000000 /\ req.receive = 500000000
        /\ get_spl_account(tok, Ata(Maker, MintA)) = [ok |-> TRUE, amount |-> 500000000]
        /\ make(req.ctx, req.seed, req.receive, req.amount).result = "InsufficientFunds"
        /\ ~account_exists(escrow, req.ctx.escrow)

(* C13: in every reachable state and for every (maker, seed), the record exists *)
(* if and only if the vault exists, and both exist exactly while the trade is   *)
(* open.                                                                        *)
C13_RecordIffVault ==
    \A p \in Pairs :
        /\ account_exists(escrow, Pda(p)) <=> account_exists(tok, Vault(p))
        /\ Open(p) <=> account_exists(escrow, Pda(p))

\* one trade open with record and vault, another just closed with neither
C13_Witness ==
    \E p \in Pairs, q \in Pairs :
        /\ p # q
        /\ account_exists(escrow, Pda(p)) /\ account_exists(tok, Vault(p))
        /\ last.op \in {"take", "refund"} /\ last.escrow = Pda(q)
        /\ ~account_exists(escrow, Pda(q)) /\ ~account_exists(tok, Vault(q))

(* C14 as claimed: once a take or refund has closed the trade of a (maker,      *)
(* seed), no later operation of any kind brings a record or a vault for that    *)
(* pair into existence; so the instruction committed next leaves both absent.   *)
C14_AsClaimed ==
    [][\A p \in Pairs :
          (last.op \in {"take", "refund"} /\ last.escrow = Pda(p))
          => (~account_exists(escrow', Pda(p)) /\ ~account_exists(tok', Vault(p)))]_vars

(* C14, amended: a (maker, seed) with no record and no vault, in particular one *)
(* whose trade a take or refund has closed, stays so under every operation but  *)
(* one: a successful make by that maker with that seed, which opens a new trade *)
(* with both a record and a vault.                                              *)
C14_ReopenedOnlyByMake ==
    [][\A p \in Pairs :
          (/\ ~account_exists(escrow, Pda(p)) /\ ~account_exists(tok, Vault(p))
           /\ (account_exists(escrow', Pda(p)) \/ account_exists(tok', Vault(p))))
          => /\ last'.op = "make" /\ last'.escrow = Pda(p)
             /\ Open(p)' /\ escrow'[Pda(p)].maker = p[1] /\ escrow'[Pda(p)].seed = p[2]
             /\ account_exists(escrow', Pda(p)) /\ account_exists(tok', Vault(p))]_vars

\* a trade just closed, nothing left of it, and a new make for its pair would succeed
C14_Witness ==
    \E p \in Pairs :
        /\ last.op \in {"take", "refund"} /\ last.escrow = Pda(p)
        /\ ~account_exists(escrow, Pda(p)) /\ ~account_exists(tok, Vault(p))
        /\ \E req \in MakeRequests :
              /\ WellFormedMake(req) /\ <<req.ctx.maker, req.seed>> = p
              /\ make(req.ctx, req.seed, req.receive, req.amount).result = "ok"

\* a take that names the record of the open trade p, its maker and its mints, and
\* is signed by its taker
TakeNaming(ctx, p) ==
    /\ Open(p) /\ ctx.escrow = Pda(p) /\ ctx.maker = p[1]
    /\ ctx.mint_a = MintA /\ ctx.mint_b = MintB /\ ctx.taker \in ctx.signers

\* a refund that names the record of the open trade p and its mint, and is signed
\* by its maker
RefundNaming(ctx, p) ==
    /\ Open(p) /\ ctx.escrow = Pda(p) /\ ctx.maker = p[1]
    /\ ctx.mint_a = MintA /\ ctx.signers = {p[1]}

(* C15: every record is stored at the address derived from its stored maker and *)
(* seed, and a take or a refund that names an open trade's record together with *)
(* a vault other than the one derived from it, such as the vault of another     *)
(* open trade, fails with AddressMismatch and changes nothing: both trades keep *)
(* their records, vault balances and party balances.                            *)
C15_AddressMismatch ==
    /\ \A a \in DOMAIN escrow : escrow_pda(escrow[a].maker, escrow[a].seed) = a
    /\ \A p \in OpenPairs : \A ctx \in TakesAt[p] :
          (TakeNaming(ctx, p) /\ ctx.vault # Vault(p))
          => take(ctx).result = "AddressMismatch" /\ Unchanged(take(ctx))
    /\ \A p \in OpenPairs : \A ctx \in RefundsAt[p] :
          (RefundNaming(ctx, p) /\ ctx.vault # Vault(p))
          => refund(ctx).result = "AddressMismatch" /\ Unchanged(refund(ctx))

\* two trades are open; a funded taker's take and the maker's refund of the one
\* name the vault of the other
C15_Witness ==
    \E p \in Pairs, q \in Pairs :
        /\ p # q /\ Open(p) /\ Open(q)
        /\ \E ctx \in TakeContexts :
              /\ TakeNaming(ctx, p) /\ ctx.vault = Vault(q)
              /\ Held(tok, Ata(ctx.taker, MintB)) >= terms[p].receive
              /\ take(ctx).result = "AddressMismatch"
        /\ \E ctx \in RefundContexts :
              /\ RefundNaming(ctx, p) /\ ctx.vault = Vault(q)
              /\ refund(ctx).result = "AddressMismatch"
        /\ Held(tok, Vault(p)) = terms[p].amount
        /\ Held(tok, Vault(q)) = terms[q].amount

\* the transfers of asset-B among those an instruction made
PaymentsOf(moved, mint_b) == {i \in 1 .. Len(moved) : moved[i].mint = mint_b}

(* C16: a take that names a maker other than the one stored in the record fails *)
(* and changes nothing; and every take that succeeds makes exactly one transfer *)
(* of asset B, of the record's receive_amount, from the taker to the token      *)
(* account of the record's stored maker, and changes no other asset-B balance.  *)
C16_TakePaysStoredMaker ==
    \A ctx \in TakeContexts :
        account_exists(escrow, ctx.escrow)
        => LET r   == take(ctx)
               rec == escrow[ctx.escrow]
               to  == Ata(rec.maker, rec.mint_b)
               from == Ata(ctx.taker, rec.mint_b)
           IN  /\ ctx.maker # rec.maker => (r.result # "ok" /\ Unchanged(r))
               /\ r.result = "ok" =>
                     /\ ctx.maker = rec.maker
                     /\ \E i \in PaymentsOf(r.moved, rec.mint_b) :
                           /\ PaymentsOf(r.moved, rec.mint_b) = {i}
                           /\ r.moved[i].to = to /\ r.moved[i].from = from
                           /\ r.moved[i].amount = rec.receive
                     /\ to # from =>
                           Held(r.tok, to) = Held(tok, to) + rec.receive
                     /\ \A k \in Keypairs :
                           Ata(k, rec.mint_b) \notin {to, from}
                           => Held(r.tok, Ata(k, rec.mint_b))
                                = Held(tok, Ata(k, rec.mint_b))

\* a funded taker names itself as the maker of the maker's open trade and is
\* refused, while the same take naming the stored maker would pay that maker
C16_Witness ==
    \E p \in Pairs, ctx \in TakeContexts, good \in TakeContexts :
        /\ Open(p) /\ p[1] = Maker
        /\ ctx.escrow = Pda(p) /\ ctx.vault = Vault(p)
        /\ ctx.mint_a = MintA /\ ctx.mint_b = MintB
        /\ ctx.signers = {Taker} /\ ctx.taker = Taker /\ ctx.maker = Taker
        /\ Held(tok, Ata(Taker, MintB)) >= terms[p].receive
        /\ take(ctx).result = "AddressMismatch"
        /\ WellFormedTake(good, p, Taker)
        /\ take(good).result = "ok"
        /\ Held(take(good).tok, Ata(Maker, MintB))
              = Held(tok, Ata(Maker, MintB)) + terms[p].receive

\* the storage deposits of a trade: those of its record and of its vault
Deposits == Rent("escrow") + Rent("token")

\* the make of p is the instruction committed last
JustMade(p) == last.op = "make" /\ last.escrow = Pda(p) /\ Open(p)

\* the transaction fees the maker of p has paid since the make of p was sent,
\* that of the make included
FeesSince(p) == sent.fee[p[1]] - terms[p].f_before

(* C17: a successful make takes the storage deposits of the record and the      *)
(* vault from the maker and from nobody else; a successful refund and a         *)
(* successful take return exactly those deposits to the record's maker, and no  *)
(* other party's funds grow (a taker pays for the token accounts its take       *)
(* creates); so a trade closed right after its make leaves the maker's funds   *)
(* at their value before the make, less the transaction fees the maker has      *)
(* paid since.                                                                  *)
C17_StorageDeposits ==
    /\ \A req \in MakeRequests :
          LET r == make(req.ctx, req.seed, req.receive, req.amount)
          IN  r.result = "ok" =>
                 /\ r.sol[req.ctx.maker] = sol[req.ctx.maker] - Deposits
                 /\ \A k \in Keypairs \ {req.ctx.maker} : r.sol[k] = sol[k]
    /\ \A p \in Pairs : JustMade(p) => sol[p[1]] = terms[p].s_before - Deposits - FeesSince(p)
    /\ \A p \in OpenPairs : \A ctx \in RefundsAt[p] :
          (Open(p) /\ ctx.escrow = Pda(p) /\ refund(ctx).result = "ok")
          => LET r == refund(ctx)
             IN  /\ r.sol[p[1]] = sol[p[1]] + Deposits
                 /\ \A k \in Keypairs \ {p[1]} : r.sol[k] = sol[k]
                 /\ JustMade(p) => r.sol[p[1]] = terms[p].s_before - FeesSince(p)
    /\ \A p \in OpenPairs : \A ctx \in TakesAt[p] :
          (Open(p) /\ ctx.escrow = Pda(p) /\ take(ctx).result = "ok")
          => LET r == take(ctx)
             IN  /\ \A k \in Keypairs \ {p[1]} : r.sol[k] <= sol[k]
                 /\ ctx.taker # p[1] =>
                       /\ r.sol[p[1]] = sol[p[1]] + Deposits
                       /\ JustMade(p) => r.sol[p[1]] = terms[p].s_before - FeesSince(p)

\* the maker's trade was closed by a take that created both destination accounts:
\* the maker holds what the setup left less the fee of the make, the taker has
\* paid for two token accounts and the fee of the take
C17_Witness ==
    /\ last.op = "take" /\ last.escrow \in {Pda(<<Maker, s>>) : s \in Seeds}
    /\ \A p \in Pairs : ~Open(p)
    /\ sol[Maker] = Airdrop - SetupCost(Maker, FALSE) - Fee
    /\ sol[Taker] = Airdrop - SetupCost(Taker, FALSE) - 2 * Rent("token") - Fee

(* C18: in every reachable state the record of every open trade holds the       *)
(* receive_amount, maker, seed, asset_a and asset_b given to the make that      *)
(* created it; no step changes a record that exists before and after it; and a *)
(* take that succeeds transfers exactly the stored receive_amount of asset B.   *)
C18_RecordImmutable ==
    /\ \A p \in Pairs :
          Open(p) =>
              /\ account_exists(escrow, Pda(p))
              /\ escrow[Pda(p)].receive = terms[p].receive
              /\ escrow[Pda(p)].maker = p[1]
              /\ escrow[Pda(p)].seed = p[2]
              /\ escrow[Pda(p)].mint_a = MintA
              /\ escrow[Pda(p)].mint_b = MintB
    /\ \A req \in MakeRequests :
          LET r == make(req.ctx, req.seed, req.receive, req.amount)
          IN  \A a \in DOMAIN escrow : r.escrow[a] = escrow[a]
    /\ \A ctx \in TakeContexts :
          LET r == take(ctx)
          IN  \A a \in DOMAIN escrow \ {ctx.escrow} : r.escrow[a] = escrow[a]
    /\ \A ctx \in RefundContexts :
          LET r == refund(ctx)
          IN  \A a \in DOMAIN escrow \ {ctx.escrow} : r.escrow[a] = escrow[a]
    /\ \A p \in OpenPairs : \A ctx \in TakesAt[p] :
          (Open(p) /\ ctx.escrow = Pda(p) /\ take(ctx).result = "ok")
          => \E i \in 1 .. Len(take(ctx).moved) :
                /\ take(ctx).moved[i].mint = MintB
                /\ take(ctx).moved[i].amount = terms[p].receive

\* two instructions after its make (a second make was the last), the first
\* trade's record still asks for the 500_000_000 it was made with
C18_Witness ==
    /\ last.op = "make" /\ last.escrow = Pda(<<Maker, SeedB>>)
    /\ Open(<<Maker, SeedA>>) /\ terms[<<Maker, SeedA>>].receive = 500000000
    /\ escrow[Pda(<<Maker, SeedA>>)].receive = 500000000
    /\ escrow[Pda(<<Maker, SeedA>>)].seed = 42
    /\ terms[<<Maker, SeedA>>].amount = 500000000

\* the outcome r leaves the record and the vault of the pair q as they are
Kept(r, q) ==
    LET record == Pda(q)
        vault  == Vault(q)
    IN  /\ account_exists(r.escrow, record) <=> account_exists(escrow, record)
        /\ account_exists(escrow, record) => r.escrow[record] = escrow[record]
        /\ account_exists(r.tok, vault) <=> account_exists(tok, vault)
        /\ Held(r.tok, vault) = Held(tok, vault)

(* C19: every instruction leaves the record and the vault of every (maker,      *)
(* seed) other than the one it is sent against as they are: one that fails      *)
(* changes nothing at all, a make that succeeds leaves those of every pair but  *)
(* its own (maker, seed), a take or a refund that succeeds those of every pair  *)
(* but the one whose record it names.                                           *)
C19_TradesIndependent ==
    /\ \A req \in MakeRequests :
          LET r == make(req.ctx, req.seed, req.receive, req.amount)
          IN  IF r.result = "ok"
              THEN \A q \in Pairs \ {<<req.ctx.maker, req.seed>>} : Kept(r, q)
              ELSE Unchanged(r)
    /\ \A ctx \in TakeContexts :
          LET r == take(ctx)
          IN  IF r.result = "ok"
              THEN \A q \in Pairs \ Traded(ctx) : Kept(r, q)
              ELSE Unchanged(r)
    /\ \A ctx \in RefundContexts :
          LET r == refund(ctx)
          IN  IF r.result = "ok"
              THEN \A q \in Pairs \ Traded(ctx) : Kept(r, q)
              ELSE Unchanged(r)

\* the maker holds two open trades under seeds 42 and 99; a take and a refund of
\* the first succeed and leave the second as it is
C19_Witness ==
    LET p == <<Maker, SeedA>>
        q == <<Maker, SeedB>>
    IN  /\ Open(p) /\ Open(q)
        /\ account_exists(escrow, Pda(p)) /\ account_exists(escrow, Pda(q))
        /\ Pda(p) # Pda(q)
        /\ \E ctx \in TakeContexts :
              /\ WellFormedTake(ctx, p, Taker) /\ take(ctx).result = "ok"
              /\ Kept(take(ctx), q)
              /\ ~account_exists(take(ctx).escrow, Pda(p))
        /\ \E ctx \in RefundContexts :
              /\ WellFormedRefund(ctx, p) /\ refund(ctx).result = "ok"
              /\ Kept(refund(ctx), q)
        /\ Held(tok, Vault(q)) = terms[q].amount

(* C20: a take of an open trade by a funded second party, sent with the trade's *)
(* accounts, succeeds also when the taker's asset-A account and the maker's     *)
(* asset-B account do not exist; the take creates both, at the taker's expense, *)
(* and afterwards they hold exactly deposit_amount of asset A and               *)
(* receive_amount of asset B.                                                   *)
C20_TakeCreatesAccounts ==
    \A p \in OpenPairs, taker \in Keypairs : \A ctx \in TakesAt[p] :
        (/\ Open(p) /\ taker # p[1] /\ WellFormedTake(ctx, p, taker)
         /\ Held(tok, Ata(taker, MintB)) >= terms[p].receive
         /\ ~account_exists(tok, Ata(taker, MintA))
         /\ ~account_exists(tok, Ata(p[1], MintB)))
        => LET r == take(ctx)
           IN  /\ r.result = "ok"
               /\ account_exists(r.tok, Ata(taker, MintA))
               /\ account_exists(r.tok, Ata(p[1], MintB))
               /\ r.tok[Ata(taker, MintA)] = terms[p].amount
               /\ r.tok[Ata(p[1], MintB)] = terms[p].receive
               /\ r.sol[taker] = sol[taker] - 2 * Rent("token")

\* the run of utils-tests.rs: the take created both accounts, which the taker
\* paid for, and they hold 1_000_000_000 of asset A and 500_000_000 of asset B
C20_Witness ==
    /\ last.op = "take" /\ last.escrow = Pda(<<Maker, SeedA>>)
    /\ \A p \in Pairs : ~Open(p)
    /\ sol[Taker] = Airdrop - SetupCost(Taker, FALSE) - 2 * Rent("token") - Fee
    /\ account_exists(tok, Ata(Taker, MintA)) /\ account_exists(tok, Ata(Maker, MintB))
    /\ tok[Ata(Taker, MintA)] = 1000000000
    /\ tok[Ata(Maker, MintB)] = 500000000
    /\ Held(tok, Ata(Taker, MintB)) = 0

(* C21: a make that the maker named in it has not signed, and a take that the   *)
(* taker named in it has not signed, fail and change no record, vault or        *)
(* balance; when the request is otherwise valid the failure is Unauthorized.    *)
(* So every make and every take that succeeds is signed by its maker or taker.  *)
C21_SignatureRequired ==
    /\ \A req \in MakeRequests :
          LET r == make(req.ctx, req.seed, req.receive, req.amount)
              p == <<req.ctx.maker, req.seed>>
          IN  IF req.ctx.maker \in req.ctx.signers THEN TRUE
              ELSE /\ r.result # "ok" /\ Unchanged(r)
                   /\ (/\ req.amount > 0 /\ req.receive > 0 /\ ~Open(p)
                       /\ req.ctx.escrow = Pda(p))
                      => r.result = "Unauthorized"
    /\ \A ctx \in TakeContexts :
          LET r == take(ctx)
          IN  IF ctx.taker \in ctx.signers THEN TRUE
              ELSE /\ r.result # "ok" /\ Unchanged(r)
                   /\ \A p \in OpenPairs :
                         (/\ Open(p) /\ ctx.escrow = Pda(p) /\ ctx.vault = Vault(p)
                          /\ ctx.maker = p[1]
                          /\ ctx.mint_a = MintA /\ ctx.mint_b = MintB
                          /\ OwnTokenAccounts(ctx))
                         => r.result = "Unauthorized"

\* the taker signs a make in the funded maker's name, and the maker signs a take
\* of its own open trade in the funded taker's name; both are refused
C21_Witness ==
    /\ \E req \in MakeRequests :
          /\ req.ctx.maker = Maker /\ req.ctx.signers = {Taker}
          /\ req.amount > 0 /\ req.receive > 0
          /\ ~Open(<<Maker, req.seed>>)
          /\ req.ctx.escrow = Pda(<<Maker, req.seed>>)
          /\ Held(tok, Ata(Maker, MintA)) >= req.amount
          /\ make(req.ctx, req.seed, req.receive, req.amount).result = "Unauthorized"
    /\ \E p \in Pairs, ctx \in TakeContexts :
          /\ Open(p) /\ p[1] = Maker
          /\ ctx.escrow = Pda(p) /\ ctx.vault = Vault(p) /\ ctx.maker = Maker
          /\ ctx.mint_a = MintA /\ ctx.mint_b = MintB
          /\ ctx.taker = Taker /\ ctx.signers = {Maker}
          /\ Held(tok, Ata(Taker, MintB)) >= terms[p].receive
          /\ take(ctx).result = "Unauthorized"

\* the sum of the balances of the given token accounts
RECURSIVE SumOf(_, _)
SumOf(store, accounts) ==
    IF accounts = {} THEN 0
    ELSE LET a == CHOOSE x \in accounts : TRUE
         IN  store[a] + SumOf(store, accounts \ {a})

\* all tokens of a mint: token accounts are <<"ata", owner, mint>>, the owner
\* being a party or, for a vault, a record
Supply(store, mint) == SumOf(store, {a \in DOMAIN store : a[3] = mint})

(* C22: in every reachable state the asset-A balances of all party accounts and *)
(* all vaults add up to the 1_000_000_000 minted, and the asset-B balances of   *)
(* all party accounts to the 500_000_000 minted; no vault holds asset B, and no *)
(* balance is negative.                                                         *)
C22_TokensConserved ==
    /\ Supply(tok, MintA) = MintedA
    /\ Supply(tok, MintB) = MintedB
    /\ \A a \in DOMAIN tok : tok[a] >= 0 /\ a[3] \in Mints
    /\ \A p \in Pairs : ~account_exists(tok, Ata(Pda(p), MintB))
    /\ SumOf(tok, {Ata(k, MintB) : k \in Keypairs} \cap DOMAIN tok) = MintedB

\* after a take and with another trade open, asset A is spread over a vault and
\* both parties and still adds up
C22_Witness ==
    /\ last.op = "make"
    /\ \E p \in Pairs : Open(p) /\ Held(tok, Vault(p)) = 500000000
    /\ Held(tok, Ata(Taker, MintA)) = 500000000
    /\ Held(tok, Ata(Maker, MintA)) = 0
    /\ Held(tok, Ata(Maker, MintB)) = 500000000
    /\ Supply(tok, MintA) = 1000000000

\* the parties' token accounts that the outcome r leaves with a lower balance
Debited(r) ==
    {<<k, m>> \in Keypairs \X Mints : Held(r.tok, Ata(k, m)) < Held(tok, Ata(k, m))}

\* the pairs whose vault the outcome r leaves with a lower balance or closes
Drained(r) ==
    {p \in Pairs : account_exists(tok, Vault(p))
                   /\ (Held(r.tok, Vault(p)) < tok[Vault(p)]
                       \/ ~account_exists(r.tok, Vault(p)))}

(* C23: of every instruction that can be sent, a make lowers no party's balance *)
(* but the asset-A balance of the maker who signed it and no vault's balance; a *)
(* take lowers no party's balance but the asset-B balance of the taker who      *)
(* signed it and no vault's balance but that of the trade it closes; a refund   *)
(* lowers no party's balance and no vault's balance but that of the trade it    *)
(* closes; an instruction that fails lowers nothing.                            *)
C23_NoDebitWithoutSigning ==
    /\ \A req \in MakeRequests :
          LET r == make(req.ctx, req.seed, req.receive, req.amount)
          IN  IF r.result # "ok" THEN Unchanged(r)
              ELSE /\ Debited(r) \subseteq {<<req.ctx.maker, MintA>>}
                   /\ req.ctx.maker \in req.ctx.signers
                   /\ Drained(r) = {}
    /\ \A ctx \in TakeContexts :
          LET r == take(ctx)
          IN  IF r.result # "ok" THEN Unchanged(r)
              ELSE /\ Debited(r) \subseteq {<<ctx.taker, MintB>>}
                   /\ ctx.taker \in ctx.signers
                   /\ Drained(r) = Traded(ctx)
    /\ \A ctx \in RefundContexts :
          LET r == refund(ctx)
          IN  IF r.result # "ok" THEN Unchanged(r)
              ELSE /\ Debited(r) = {}
                   /\ ctx.maker \in ctx.signers
                   /\ Drained(r) = Traded(ctx)

\* the taker holds the asset B that the maker's open trade asks for: a take in
\* the taker's name signed by the maker debits nobody, the take the taker signs
\* debits the taker's asset B and the trade's vault
C23_Witness ==
    \E p \in Pairs, forged \in TakeContexts, signed \in TakeContexts :
        /\ Open(p) /\ p[1] = Maker
        /\ WellFormedTake(signed, p, Taker)
        /\ forged = [signed EXCEPT !.signers = {Maker}, !.payer = Maker]
        /\ Debited(take(forged)) = {} /\ Drained(take(forged)) = {}
        /\ take(signed).result = "ok"
        /\ Debited(take(signed)) = {<<Taker, MintB>>}
        /\ Drained(take(signed)) = {p}

\* what the outcome r adds to the maker's balance of a mint
Gain(r, maker, mint) == Held(r.tok, Ata(maker, mint)) - Held(tok, Ata(maker, mint))

(* C24: every open trade was made with a non-zero deposit_amount and a non-zero *)
(* receive_amount, and each instruction that closes it gives its maker exactly  *)
(* one of the two: a take by a second party adds receive_amount to the maker's  *)
(* asset B and nothing to its asset A; a refund adds deposit_amount to the      *)
(* maker's asset A and nothing to its asset B (as does, on balance, a take by   *)
(* the maker itself). The record is deleted by the close, so there is no second *)
(* close of the same trade.                                                     *)
C24_ExactlyOneOutcome ==
    /\ \A p \in Pairs : Open(p) => terms[p].amount > 0 /\ terms[p].receive > 0
    /\ \A ctx \in TakeContexts :
          LET r == take(ctx)
          IN  IF r.result # "ok" THEN Unchanged(r)
              ELSE \A p \in Traded(ctx) :
                      /\ Open(p) /\ ~account_exists(r.escrow, Pda(p))
                      /\ ctx.taker # p[1] =>
                            /\ Gain(r, p[1], MintB) = terms[p].receive
                            /\ Gain(r, p[1], MintA) = 0
                      /\ ctx.taker = p[1] =>
                            /\ Gain(r, p[1], MintB) = 0
                            /\ Gain(r, p[1], MintA) = terms[p].amount
    /\ \A ctx \in RefundContexts :
          LET r == refund(ctx)
          IN  IF r.result # "ok" THEN Unchanged(r)
              ELSE \A p \in Traded(ctx) :
                      /\ Open(p) /\ ~account_exists(r.escrow, Pda(p))
                      /\ Gain(r, p[1], MintA) = terms[p].amount
                      /\ Gain(r, p[1], MintB) = 0

\* the tests' trade is open and the taker is funded: closing it by a take would
\* give the maker 500_000_000 of asset B only, closing it by a refund
\* 1_000_000_000 of asset A only
C24_Witness ==
    \E ctx \in TakeContexts, ctx2 \in RefundContexts :
        LET p == <<Maker, SeedA>>
        IN  /\ Open(p) /\ terms[p].amount = 1000000000 /\ terms[p].receive = 500000000
            /\ WellFormedTake(ctx, p, Taker) /\ take(ctx).result = "ok"
            /\ Gain(take(ctx), Maker, MintB) = 500000000
            /\ Gain(take(ctx), Maker, MintA) = 0
            /\ WellFormedRefund(ctx2, p) /\ refund(ctx2).result = "ok"
            /\ Gain(refund(ctx2), Maker, MintA) = 1000000000
            /\ Gain(refund(ctx2), Maker, MintB) = 0

(* C25: in every reachable state every open trade can be refunded: the refund   *)
(* signed by its maker and sent with its accounts succeeds, and returns the     *)
(* whole deposit; hence, when the maker's refund is scheduled fairly, every     *)
(* open trade is eventually closed.  "Open(p) leads to ~Open(p)" is written in  *)
(* its equivalent form "always eventually ~Open(p)".                            *)
C25_NeverLocked ==
    /\ [](\A p \in Pairs :
            Open(p) => \E ctx \in RefundContexts :
                          /\ WellFormedRefund(ctx, p)
                          /\ \E r \in {refund(ctx)} :
                                /\ r.result = "ok"
                                /\ Gain(r, p[1], MintA) = terms[p].amount)
    /\ \A p \in Pairs : []<>(~Open(p))

\* the maker asks for more asset B than the taker holds, so no take can close the
\* trade; the maker's refund still succeeds
C25_Witness ==
    \E p \in Pairs :
        /\ Open(p) /\ p[1] = Maker
        /\ \A k \in Keypairs : Held(tok, Ata(k, MintB)) < terms[p].receive
        /\ \A ctx \in TakeContexts : ctx.escrow = Pda(p) => take(ctx).result # "ok"
        /\ \E ctx \in RefundContexts :
              WellFormedRefund(ctx, p) /\ refund(ctx).result = "ok"

====
